---- MODULE Spec2Model ----
(***************************************************************************)
(* A model of draychev/http-chat-client: a local web server that bridges a *)
(* browser to a remote chat backend, with a periodic heartbeat (ping).     *)
(*                                                                         *)
(* The source holds three program variants:                                *)
(*   "client"  pkg/client (src/Makefile:15-301) run by the packaged main   *)
(*             (src/unnamed/part_001)                                      *)
(*   "first"   the first program of src/http-chat-client.go (1-267)        *)
(*   "second"  the second program of src/http-chat-client.go (269-512);    *)
(*             its config.Port / cfg.Port is read as ChatServerPort        *)
(* Time is counted in heartbeat periods (3000 ms each) since the heartbeat *)
(* was started.                                                            *)
(***************************************************************************)
EXTENDS Integers, Sequences, FiniteSets, TLC

VARIABLES
    variant,              \* which of the three programs runs
    env,                  \* the process environment (two keys)
    EnvVarUserName,       \* package variable, set at package initialisation
    EnvVarConfigFileName, \* package variable, set at package initialisation
    configFile,           \* what the file system holds at the configured path
    Config,               \* package variable Config / cfg (a pointer: may be nil)
    procState,            \* "running", "exited" (os.Exit by log.Fatal), "panicked"
    mainpc,               \* position of func main
    clientpc,             \* position of NewChatClient's goroutine (pkg/client only)
    routes,               \* patterns registered with http.HandleFunc, in order
    now,                  \* periods elapsed since the heartbeat was started
    tickerC,              \* number of ticks buffered in ticker.C (capacity 1)
    ticksFired,           \* times the runtime timer of the ticker has fired
    ticksDropped,         \* fired ticks discarded because ticker.C was full
    hbpc,                 \* position of the heartbeat goroutine
    wakeAt,               \* earliest time time.Sleep returns (second program)
    pingsStarted,         \* calls of sendPing started
    lastPing,             \* the Ping payload of the latest sendPing
    req,                  \* the request being handled by the local server
    resp,                 \* what the handler wrote for the latest request
    posts,                \* outbound POST /messages bodies of the latest request
    fetches,              \* outbound GETs issued for the latest request
    quitClosed,           \* the quit channel has been closed
    tickerStopped,        \* ticker.Stop() has been called
    pingsAtStop,          \* calls of sendPing started before ticker.Stop()
    lastOutcome,          \* how the latest sendPing that returned has ended
    hadEntries,           \* an earlier request was answered with a non-empty list
    configWrites,         \* assignments to the package variable Config / cfg so far
    inFlight              \* calls of sendPing that have started and not ended

vars == << variant, env, EnvVarUserName, EnvVarConfigFileName, configFile, Config, procState,
           mainpc, clientpc, routes, now, tickerC, ticksFired, ticksDropped, hbpc,
           wakeAt, pingsStarted, lastPing, req, resp, posts, fetches, quitClosed,
           tickerStopped, pingsAtStop, lastOutcome, hadEntries, configWrites,
           inFlight >>

-----------------------------------------------------------------------------
(* Bounds of the model *)

\* the clock stops after MaxTime periods
MaxTime == 3
\* longest array the backend returns
MaxLen == 2

-----------------------------------------------------------------------------
(* Program constants *)

Variants == {"client", "first", "second"}
TickerVariants == {"client", "first"}

endPointSendMessage == "/send-message"
endPointGetMessages == "/get-messages"
endPointGetUsers == "/get-users"
formKeyMessage == "message"

defaultHTTPChatServer == "chat.server.net"
defaultHTTPChatPort == 8080
defaultWebServerPortNumber == 99

envVarUserNameKey == "HTTPCHAT_USERNAME"
envVarConfigFileNameKey == "CONFIG_FILENAME"

StatusOK == 200
StatusFound == 302

-----------------------------------------------------------------------------
(* Environment and package initialisation *)

EnvValues == {"", "user1"}
FileNameValues == {"", "client.cfg"}

getEnvOrDefault(e, key, defaultValue) ==
    IF e[key] /= "" THEN e[key] ELSE defaultValue

\* var ( EnvVarUserName = ...; EnvVarConfigFileName = ... )
PackageVar(v, e, key, defaultValue) ==
    IF v = "client" THEN getEnvOrDefault(e, key, defaultValue) ELSE e[key]

-----------------------------------------------------------------------------
(* ChatConfig and readConfig *)

\* A *ChatConfig: nil, or a pointer to a struct of three fields.
ChatConfig(fqdn, port, web) ==
    [nil |-> FALSE, ChatServerFQDN |-> fqdn, ChatServerPort |-> port,
     WebServerPortNumber |-> web]

NilConfig ==
    [nil |-> TRUE, ChatServerFQDN |-> "", ChatServerPort |-> 0,
     WebServerPortNumber |-> 0]

DefaultConfig ==
    ChatConfig(defaultHTTPChatServer, defaultHTTPChatPort, defaultWebServerPortNumber)

ZeroConfig == ChatConfig("", 0, 0)

\* A JSON field of the config file: << >> when the key is absent, << v >> when
\* it is present with value v.
FqdnFields == {<< >>, << "" >>, << "chat.example.org" >>}
PortFields == {<< >>, << 0 >>, << 9090 >>, << -1 >>, << 70000 >>}
WebFields == {<< >>, << 0 >>, << 8000 >>}

\* a file os.ReadFile cannot read, and one json.Unmarshal cannot parse
UnreadableFile ==
    [readable |-> FALSE, json |-> FALSE, fqdn |-> << >>, port |-> << >>, web |-> << >>]
UnparsableFile ==
    [readable |-> TRUE, json |-> FALSE, fqdn |-> << >>, port |-> << >>, web |-> << >>]

\* a file holding a JSON object with the given fields
JsonFile(fqdn, port, web) ==
    [readable |-> TRUE, json |-> TRUE, fqdn |-> fqdn, port |-> port, web |-> web]

\* What os.ReadFile and json.Unmarshal can meet at the configured path.
Files ==
    {UnreadableFile, UnparsableFile}
    \cup {JsonFile(f, p, w) : f \in FqdnFields, p \in PortFields, w \in WebFields}

\* The files the whole-program specification starts from: no file, a broken
\* one, {}, {"chat-server-port": 9090} and one that sets every key.
ProgramFiles ==
    {UnreadableFile, UnparsableFile, JsonFile(<< >>, << >>, << >>),
     JsonFile(<< >>, << 9090 >>, << >>),
     JsonFile(<< "chat.example.org" >>, << 9090 >>, << 8000 >>)}

\* json.Unmarshal of one key into a struct field: a present key overwrites the
\* field, an absent key leaves it as it was.
UnmarshalField(field, old) == IF field = << >> THEN old ELSE field[1]

\* json.Unmarshal(data, &config) for data that parses.
Unmarshal(file, config) ==
    ChatConfig(UnmarshalField(file.fqdn, config.ChatServerFQDN),
               UnmarshalField(file.port, config.ChatServerPort),
               UnmarshalField(file.web, config.WebServerPortNumber))

\* ApplyDefaults without the statement for ChatServerPort
ApplyDefaults_NoPort(config) ==
    ChatConfig(IF config.ChatServerFQDN = "" THEN defaultHTTPChatServer
                                             ELSE config.ChatServerFQDN,
               config.ChatServerPort,
               IF config.WebServerPortNumber = 0 THEN defaultWebServerPortNumber
                                                 ELSE config.WebServerPortNumber)

\* the three "if field is zero, set the default" statements
ApplyDefaults(config) ==
    ChatConfig(IF config.ChatServerFQDN = "" THEN defaultHTTPChatServer
                                             ELSE config.ChatServerFQDN,
               IF config.ChatServerPort = 0 THEN defaultHTTPChatPort
                                            ELSE config.ChatServerPort,
               IF config.WebServerPortNumber = 0 THEN defaultWebServerPortNumber
                                                 ELSE config.WebServerPortNumber)

\* the value config holds before the file is read
InitialConfig(v) == IF v = "first" THEN DefaultConfig ELSE ZeroConfig

\* readConfig ends the process (log.Fatal) instead of returning
readConfigIsFatal(v, file) == v /= "client" /\ ~file.readable

\* the pointer readConfig returns, when it returns
readConfig(v, file) ==
    IF ~file.readable THEN DefaultConfig
    ELSE IF ~file.json THEN NilConfig
    ELSE ApplyDefaults(Unmarshal(file, InitialConfig(v)))

-----------------------------------------------------------------------------
(* Requests and responses of the local server (values used by Init) *)

NoReq ==
    [kind |-> "none", pc |-> "idle", parses |-> TRUE, form |-> << >>,
     result |-> "", fetched |-> << >>]

NoResp == [status |-> 0, location |-> "", entries |-> << >>, body |-> ""]

\* the zero time.Time, as json.Marshal writes it
ZeroTime == "0001-01-01T00:00:00Z"

NoPing == [username |-> "", timeSent |-> ZeroTime]

\* time.Now() as json.Marshal writes it, t periods of 3 s after the heartbeat
\* was started
TimeNow(t) ==
    "2023-04-01T10:00:" \o (IF 3 * t < 10 THEN "0" ELSE "") \o ToString(3 * t) \o "Z"

-----------------------------------------------------------------------------
(* Initial state: the process has been started, package variables are set *)

InitWith(files) ==
    /\ variant \in Variants
    /\ configFile \in files
    /\ env \in [ {envVarUserNameKey, envVarConfigFileNameKey} -> EnvValues \cup FileNameValues ]
    /\ env[envVarUserNameKey] \in EnvValues
    /\ env[envVarConfigFileNameKey] \in FileNameValues
    /\ EnvVarUserName =
           PackageVar(variant, env, envVarUserNameKey, "change-your-username")
    /\ EnvVarConfigFileName =
           PackageVar(variant, env, envVarConfigFileNameKey, "client.Config")
    /\ Config = NilConfig
    /\ procState = "running"
    /\ mainpc = IF variant = "client" THEN "go" ELSE "checkEnv"
    /\ clientpc = "none"
    /\ routes = << >>
    /\ now = 0
    /\ tickerC = 0
    /\ ticksFired = 0
    /\ ticksDropped = 0
    /\ hbpc = "none"
    /\ wakeAt = 0
    /\ pingsStarted = 0
    /\ lastPing = NoPing
    /\ req = NoReq
    /\ resp = NoResp
    /\ posts = << >>
    /\ fetches = << >>
    /\ quitClosed = FALSE
    /\ tickerStopped = FALSE
    /\ pingsAtStop = 0
    /\ lastOutcome = "none"
    /\ hadEntries = FALSE
    /\ configWrites = 0
    /\ inFlight = 0

Init == InitWith(ProgramFiles)

-----------------------------------------------------------------------------
(* Startup: func main of the two programs, NewChatClient of pkg/client *)

\* The goroutine that runs the startup sequence is main in the two programs
\* and NewChatClient's goroutine in pkg/client.
StartupPc == IF variant = "client" THEN clientpc ELSE mainpc

SetStartupPc(v) ==
    IF variant = "client"
    THEN clientpc' = v /\ UNCHANGED mainpc
    ELSE mainpc' = v /\ UNCHANGED clientpc

hbvars == << now, tickerC, ticksFired, ticksDropped, hbpc, wakeAt, pingsStarted, lastPing >>
reqvars == << req, resp, posts, fetches >>
envvars == << variant, env, EnvVarUserName, EnvVarConfigFileName, configFile >>
stopvars == << quitClosed, tickerStopped, pingsAtStop >>

\* the patterns of the four http.HandleFunc calls, in the order of the calls
RoutePatterns ==
    << "/", endPointGetMessages, endPointGetUsers, endPointSendMessage >>

\* main of the packaged program: go client.NewChatClient(quit, ready)
MainGo ==
    /\ procState = "running"
    /\ variant = "client"
    /\ mainpc = "go"
    /\ mainpc' = "waitReady"
    /\ clientpc' = "checkEnv"
    /\ UNCHANGED << configWrites, inFlight, stopvars, lastOutcome, hadEntries,
                    envvars, Config, procState, routes, hbvars, reqvars >>

\* EnvMissing that checks the first key only
EnvMissing_FirstKey(e) == e[envVarUserNameKey] = ""

\* for _, key := range {...} { if os.Getenv(key) == "" { log.Fatal() } }
EnvMissing(e) == e[envVarUserNameKey] = "" \/ e[envVarConfigFileNameKey] = ""

CheckEnv ==
    /\ procState = "running"
    /\ StartupPc = "checkEnv"
    /\ IF EnvMissing(env)
       THEN procState' = "exited" /\ UNCHANGED << mainpc, clientpc >>
       ELSE procState' = procState /\ SetStartupPc("readConfig")
    /\ UNCHANGED << configWrites, inFlight, stopvars, lastOutcome, hadEntries,
                    envvars, Config, routes, hbvars, reqvars >>

\* Config = readConfig(EnvVarConfigFileName)
ReadConfig ==
    /\ procState = "running"
    /\ StartupPc = "readConfig"
    /\ IF readConfigIsFatal(variant, configFile)
       THEN /\ procState' = "exited"
            /\ UNCHANGED << Config, configWrites, mainpc, clientpc >>
       ELSE /\ Config' = readConfig(variant, configFile)
            /\ configWrites' = configWrites + 1
            /\ procState' = procState
            /\ SetStartupPc("handleFunc")
    /\ UNCHANGED << inFlight, stopvars, lastOutcome, hadEntries,
                    envvars, routes, hbvars, reqvars >>

\* one http.HandleFunc call; after the fourth the heartbeat is set up
HandleFunc ==
    /\ procState = "running"
    /\ StartupPc = "handleFunc"
    /\ routes' = Append(routes, RoutePatterns[Len(routes) + 1])
    /\ IF Len(routes') = Len(RoutePatterns)
       THEN SetStartupPc("startHeartbeat")
       ELSE UNCHANGED << mainpc, clientpc >>
    /\ UNCHANGED << configWrites, inFlight, stopvars, lastOutcome, hadEntries,
                    envvars, Config, procState, hbvars, reqvars >>

\* where the startup goroutine goes after the go statement of the heartbeat
AfterHeartbeatStart(v) ==
    CASE v = "client" -> "sendReady"
      [] v = "first"  -> "logStart"
      [] OTHER        -> "listen"

\* time.NewTicker, done, the deferred stop, and go func() { for { ... } }()
StartHeartbeat ==
    /\ procState = "running"
    /\ StartupPc = "startHeartbeat"
    /\ hbpc' = IF variant \in TickerVariants THEN "select" ELSE "loop"
    /\ SetStartupPc(AfterHeartbeatStart(variant))
    /\ UNCHANGED << configWrites, inFlight, stopvars, lastOutcome, hadEntries,
                    envvars, Config, procState, routes, now, tickerC, ticksFired,
                    ticksDropped, wakeAt, pingsStarted, lastPing, reqvars >>

\* Ready of a main that does not wait in <-ready
Ready_NoWait ==
    /\ procState = "running"
    /\ variant = "client"
    /\ mainpc = "waitReady"
    /\ mainpc' = "logStart"
    /\ UNCHANGED << configWrites, inFlight, stopvars, lastOutcome, hadEntries,
                    envvars, Config, procState, clientpc, routes, hbvars, reqvars >>

\* ready <- true in NewChatClient meets <-ready in main; NewChatClient then
\* blocks in <-quit
Ready ==
    /\ procState = "running"
    /\ variant = "client"
    /\ clientpc = "sendReady"
    /\ mainpc = "waitReady"
    /\ clientpc' = "waitQuit"
    /\ mainpc' = "logStart"
    /\ UNCHANGED << configWrites, inFlight, stopvars, lastOutcome, hadEntries,
                    envvars, Config, procState, routes, hbvars, reqvars >>

\* the first statement of the deferred function: ticker.Stop()
StopTicker ==
    /\ tickerStopped' = TRUE
    /\ pingsAtStop' = pingsStarted

\* the deferred function is blocked in "done <- true" (done is unbuffered)
DoneSender ==
    \/ variant = "client" /\ clientpc = "sendDone"
    \/ variant = "first" /\ mainpc = "sendDone"

\* log.Info().Msgf("Starting chat client ...", ..., Config.WebServerPortNumber, ...):
\* the arguments dereference the config pointer. The panic of a nil pointer
\* ends the packaged program at once (its main has deferred nothing); in the
\* first program it runs main's deferred function first, which stops the
\* ticker and then waits in "done <- true".
LogStart ==
    /\ procState = "running"
    /\ mainpc = "logStart"
    /\ IF ~Config.nil
       THEN /\ mainpc' = "listen"
            /\ UNCHANGED << procState, stopvars >>
       ELSE IF variant = "first"
            THEN /\ mainpc' = "sendDone"
                 /\ StopTicker
                 /\ UNCHANGED << procState, quitClosed >>
            ELSE /\ procState' = "panicked"
                 /\ UNCHANGED << mainpc, stopvars >>
    /\ UNCHANGED << configWrites, inFlight, lastOutcome, hadEntries,
                    envvars, Config, clientpc, routes, hbvars, reqvars >>

\* http.ListenAndServe(fmt.Sprintf(":%d", Config.WebServerPortNumber), nil):
\* the listener binds and serves, or the call returns an error and log.Fatal
\* ends the process
Listen ==
    /\ procState = "running"
    /\ mainpc = "listen"
    /\ IF Config.nil
       THEN procState' = "panicked" /\ UNCHANGED mainpc
       ELSE \E bound \in BOOLEAN :
               IF bound
               THEN procState' = procState /\ mainpc' = "serving"
               ELSE procState' = "exited" /\ mainpc' = "fatal"
    /\ UNCHANGED << configWrites, inFlight, stopvars, lastOutcome, hadEntries,
                    envvars, Config, clientpc, routes, hbvars, reqvars >>

\* ListenAndServe returns an error while serving: log.Fatal ends the process
\* (os.Exit runs no deferred function, and the packaged main does not get to
\* its close(quit))
ListenAndServeReturns ==
    /\ procState = "running"
    /\ mainpc = "serving"
    /\ procState' = "exited"
    /\ mainpc' = "fatal"
    /\ UNCHANGED << configWrites, inFlight, stopvars, lastOutcome, hadEntries,
                    envvars, Config, clientpc, routes, hbvars, reqvars >>

\* close(quit), by the goroutine that holds the channel given to NewChatClient
CloseQuit ==
    /\ procState = "running"
    /\ variant = "client"
    /\ mainpc /= "go"
    /\ ~quitClosed
    /\ quitClosed' = TRUE
    /\ UNCHANGED << configWrites, inFlight, tickerStopped, pingsAtStop, lastOutcome, hadEntries,
                    envvars, Config, procState, mainpc, clientpc, routes, hbvars,
                    reqvars >>

\* <-quit returns in NewChatClient, the function returns and its deferred
\* function runs: ticker.Stop(), then it waits in "done <- true"
QuitReceived ==
    /\ procState = "running"
    /\ variant = "client"
    /\ clientpc = "waitQuit"
    /\ quitClosed
    /\ clientpc' = "sendDone"
    /\ StopTicker
    /\ UNCHANGED << configWrites, inFlight, quitClosed, lastOutcome, hadEntries,
                    envvars, Config, procState, mainpc, routes, hbvars, reqvars >>

-----------------------------------------------------------------------------
(* The heartbeat *)

HeartbeatStarted == hbpc /= "none"

\* TickDue of a ticker on which Stop has no effect
TickDue_IgnoresStop ==
    /\ variant \in TickerVariants
    /\ HeartbeatStarted
    /\ now = ticksFired + 1

\* the runtime timer of the ticker is due
TickDue ==
    /\ variant \in TickerVariants
    /\ HeartbeatStarted
    /\ ~tickerStopped
    /\ now = ticksFired + 1

\* the heartbeat goroutine can take a step that waits for nothing: the first
\* call of the sleep loop, a receive from a ticker.C that holds a tick or
\* from done when its sender waits, the return of a time.Sleep whose duration
\* is over
HeartbeatRunnable ==
    \/ hbpc = "loop"
    \/ hbpc = "select" /\ (tickerC > 0 \/ DoneSender)
    \/ hbpc = "sleep" /\ now >= wakeAt

\* One period passes. The runtime timer fires when it is due, and a runnable
\* heartbeat goroutine is run before a whole period has gone by; the timer
\* and the goroutine are late only by what a sendPing call in flight takes.
TimePasses ==
    /\ procState = "running"
    /\ HeartbeatStarted
    /\ now < MaxTime
    /\ ~TickDue
    /\ ~HeartbeatRunnable
    /\ now' = now + 1
    /\ UNCHANGED << configWrites, inFlight, stopvars, lastOutcome, hadEntries,
                    envvars, Config, procState, mainpc, clientpc, routes, tickerC,
                    ticksFired, ticksDropped, hbpc, wakeAt, pingsStarted, lastPing,
                    reqvars >>

\* SendTick on a channel that queues every tick
SendTick_Queues(c) == c + 1

\* the channel after the timer's non-blocking send on ticker.C (capacity 1)
SendTick(c) == IF c = 0 THEN 1 ELSE c

\* the timer of time.NewTicker fires: a tick is sent unless ticker.C is full
TickerFire ==
    /\ procState = "running"
    /\ TickDue
    /\ ticksFired' = ticksFired + 1
    /\ tickerC' = SendTick(tickerC)
    /\ ticksDropped' = IF tickerC' = tickerC THEN ticksDropped + 1 ELSE ticksDropped
    /\ UNCHANGED << configWrites, inFlight, stopvars, lastOutcome, hadEntries,
                    envvars, Config, procState, mainpc, clientpc, routes, now, hbpc,
                    wakeAt, pingsStarted, lastPing, reqvars >>

\* the username of Ping{Username: ...} in sendPing
PingUsername(v, userName) == IF v = "second" THEN "Alice" ELSE userName

\* Ping{Username: ...}: TimeSent is not set and stays the zero time
NewPing(v, userName) == [username |-> PingUsername(v, userName), timeSent |-> ZeroTime]

\* StartPing of a loop that runs "go sendPing()": the loop does not wait for
\* the call
StartPing_Async ==
    IF Config.nil
    THEN /\ procState' = "panicked"
         /\ UNCHANGED << hbpc, pingsStarted, lastPing, inFlight >>
    ELSE /\ procState' = procState
         /\ hbpc' = hbpc
         /\ pingsStarted' = pingsStarted + 1
         /\ inFlight' = inFlight + 1
         /\ lastPing' = NewPing(variant, EnvVarUserName)

\* sendPing up to its blocking POST: builds the Ping and the URL (which
\* dereferences the config pointer) and posts
StartPing ==
    IF Config.nil
    THEN /\ procState' = "panicked"
         /\ UNCHANGED << hbpc, pingsStarted, lastPing, inFlight >>
    ELSE /\ procState' = procState
         /\ hbpc' = "ping"
         /\ pingsStarted' = pingsStarted + 1
         /\ inFlight' = inFlight + 1
         /\ lastPing' = NewPing(variant, EnvVarUserName)

\* case <-ticker.C: the loop takes the buffered tick and calls sendPing
HbReceiveTick ==
    /\ procState = "running"
    /\ variant \in TickerVariants
    /\ hbpc = "select"
    /\ tickerC > 0
    /\ tickerC' = tickerC - 1
    /\ StartPing
    /\ UNCHANGED << configWrites, stopvars, lastOutcome, hadEntries,
                    envvars, Config, mainpc, clientpc, routes, now, ticksFired,
                    ticksDropped, wakeAt, reqvars >>

\* case <-done: return. The receive lets the deferred function end: in
\* pkg/client NewChatClient is over, in the first program the panic that ran
\* the deferred function ends the process. When ticker.C holds a tick as
\* well, select takes either case (HbReceiveTick is enabled too).
HbReceiveDone ==
    /\ procState = "running"
    /\ hbpc = "select"
    /\ DoneSender
    /\ hbpc' = "returned"
    /\ SetStartupPc("returned")
    /\ procState' = IF variant = "first" THEN "panicked" ELSE procState
    /\ UNCHANGED << configWrites, inFlight, stopvars, lastOutcome, hadEntries,
                    envvars, Config, routes, now, tickerC, ticksFired, ticksDropped,
                    wakeAt, pingsStarted, lastPing, reqvars >>

\* the top of for { sendPing(); time.Sleep(...) } in the second program
HbLoop ==
    /\ procState = "running"
    /\ variant = "second"
    /\ hbpc = "loop"
    /\ StartPing
    /\ UNCHANGED << configWrites, stopvars, lastOutcome, hadEntries,
                    envvars, Config, mainpc, clientpc, routes, now, tickerC,
                    ticksFired, ticksDropped, wakeAt, reqvars >>

\* How an outbound call ends: the backend answers with the status the call
\* expects, with another status, or the transport fails.
Outcomes == {"expected", "otherStatus", "transportError"}

\* FailureEffect with pkg/client's "return" after a logged transport error
\* left out, as in the first program
FailureEffect_NoReturn(v, outcome) ==
    CASE outcome = "expected" -> "return"
      [] outcome = "transportError" /\ v \in {"client", "first"} -> "panic"
      [] v \in {"client", "first"} -> "return"
      [] OTHER -> "exit"

\* FailureEffect with the log.Fatalf of the second program in every variant
FailureEffect_Fatal(v, outcome) ==
    IF outcome = "expected" THEN "return" ELSE "exit"

\* What a failed POST or GET does to its caller, by variant:
\*   client  logs and returns
\*   first   logs; after a transport error resp is nil and
\*           "defer resp.Body.Close()" dereferences it: panic
\*   second  log.Fatalf: the process exits
FailureEffect(v, outcome) ==
    CASE outcome = "expected" -> "return"
      [] v = "client" -> "return"
      [] v = "first" -> IF outcome = "transportError" THEN "panic" ELSE "return"
      [] OTHER -> "exit"

\* HbPingReturn that calls sendPing again at once after a failed ping
HbPingReturn_Retry ==
    /\ procState = "running"
    /\ hbpc = "ping"
    /\ \E outcome \in Outcomes :
          /\ lastOutcome' = outcome
          /\ IF outcome = "expected"
             THEN /\ pingsStarted' = pingsStarted
                  /\ inFlight' = inFlight - 1
                  /\ IF variant \in TickerVariants
                     THEN hbpc' = "select" /\ UNCHANGED wakeAt
                     ELSE hbpc' = "sleep" /\ wakeAt' = now + 1
             ELSE /\ pingsStarted' = pingsStarted + 1
                  /\ UNCHANGED << hbpc, wakeAt, inFlight >>
    /\ UNCHANGED << configWrites, stopvars, hadEntries,
                    envvars, Config, procState, mainpc, clientpc, routes, now,
                    tickerC, ticksFired, ticksDropped, lastPing, reqvars >>

\* the POST of sendPing returns
HbPingReturn ==
    /\ procState = "running"
    /\ hbpc = "ping"
    /\ \E outcome \in Outcomes :
          LET effect == FailureEffect(variant, outcome) IN
          /\ lastOutcome' = outcome
          /\ CASE effect = "panic" ->
                      procState' = "panicked" /\ UNCHANGED << hbpc, wakeAt, inFlight >>
               [] effect = "exit" ->
                      procState' = "exited" /\ UNCHANGED << hbpc, wakeAt, inFlight >>
               [] OTHER ->
                      /\ procState' = procState
                      /\ inFlight' = inFlight - 1
                      /\ IF variant \in TickerVariants
                         THEN hbpc' = "select" /\ UNCHANGED wakeAt
                         ELSE hbpc' = "sleep" /\ wakeAt' = now + 1
    /\ UNCHANGED << configWrites, stopvars, hadEntries,
                    envvars, Config, mainpc, clientpc, routes, now, tickerC,
                    ticksFired, ticksDropped, pingsStarted, lastPing, reqvars >>

\* time.Sleep(3 * time.Second) returns when the duration is over
HbWake ==
    /\ procState = "running"
    /\ variant = "second"
    /\ hbpc = "sleep"
    /\ now >= wakeAt
    /\ hbpc' = "loop"
    /\ UNCHANGED << configWrites, inFlight, stopvars, lastOutcome, hadEntries,
                    envvars, Config, procState, mainpc, clientpc, routes, now,
                    tickerC, ticksFired, ticksDropped, wakeAt, pingsStarted,
                    lastPing, reqvars >>

-----------------------------------------------------------------------------
(* JSON bodies of the backend and json.NewDecoder(resp.Body).Decode *)

\* a JSON literal on the wire: its type and its text
JString(s) == [type |-> "string", text |-> s]
JNumber(s) == [type |-> "number", text |-> s]

\* the quoted texts time.Time.UnmarshalJSON accepts (RFC 3339)
ValidTimes == {"2023-04-01T10:00:00Z", "2023-04-01T10:00:03Z"}

\* objects of the array GET /messages answers; keys in the order json.Marshal
\* writes them: username, message, timeSent
WireMessage(u, m, t) == [username |-> u, message |-> m, timeSent |-> t]

WireMessages ==
    { WireMessage(JString("alice"), JString("hi"), JString("2023-04-01T10:00:00Z")),
      WireMessage(JString("bob"), JString("yo"), JString("2023-04-01T10:00:03Z")),
      WireMessage(JString("bob"), JNumber("7"), JString("2023-04-01T10:00:03Z")),
      WireMessage(JString("eve"), JString("late"), JString("yesterday")) }

\* objects of the array GET /users answers: username, lastPing
WireUser(u, t) == [username |-> u, lastPing |-> t]

WireUsers ==
    { WireUser(JString("alice"), JString("2023-04-01T10:00:00Z")),
      WireUser(JString("bob"), JString("2023-04-01T10:00:03Z")),
      WireUser(JString("eve"), JNumber("7")) }

SeqsUpTo(S, n) == UNION { [1..k -> S] : k \in 0..n }

\* a response body: text that is no JSON value (or is cut short), or an array
MalformedBody == [syntax |-> FALSE, elems |-> << >>]
ArrayBody(elems) == [syntax |-> TRUE, elems |-> elems]

MessageBodies == {MalformedBody} \cup {ArrayBody(e) : e \in SeqsUpTo(WireMessages, MaxLen)}
UserBodies == {MalformedBody} \cup {ArrayBody(e) : e \in SeqsUpTo(WireUsers, MaxLen)}

\* literalStore into a string field: a JSON string is stored; another literal
\* is an UnmarshalTypeError, which is saved while the decoding goes on
StoreString(j, old) ==
    IF j.type = "string" THEN [value |-> j.text, err |-> "none"]
                         ELSE [value |-> old, err |-> "type"]

\* literalStore into a time.Time: Time.UnmarshalJSON; its error ends the
\* decoding at once
StoreTime(j) ==
    IF j.type = "string" /\ j.text \in ValidTimes
    THEN [value |-> j.text, err |-> "none"]
    ELSE [value |-> ZeroTime, err |-> "abort"]

\* the error of an object whose fields ended with these errors, in key order
ObjectErr(errs) ==
    IF \E i \in 1..Len(errs) : errs[i] = "abort" THEN "abort"
    ELSE IF \E i \in 1..Len(errs) : errs[i] = "type" THEN "type"
    ELSE "none"

\* d.object into a Message{}: the fields before a failing timeSent are stored
DecodeMessage(w) ==
    LET u == StoreString(w.username, "")
        m == StoreString(w.message, "")
        t == StoreTime(w.timeSent)
    IN  [value |-> [Username |-> u.value, Message |-> m.value, TimeSent |-> t.value],
         err |-> ObjectErr(<< u.err, m.err, t.err >>)]

\* d.object into a User{}
DecodeUser(w) ==
    LET u == StoreString(w.username, "")
        t == StoreTime(w.lastPing)
    IN  [value |-> [Username |-> u.value, LastPing |-> t.value],
         err |-> ObjectErr(<< u.err, t.err >>)]

\* d.array into a slice: the slice grows by one before each element is
\* decoded into it; an element's hard error returns at once and leaves the
\* slice as it is, a saved type error lets the loop go on
RECURSIVE DecodedSlice(_)
DecodedSlice(results) ==
    IF results = << >> THEN << >>
    ELSE IF Head(results).err = "abort" THEN << Head(results) >>
    ELSE << Head(results) >> \o DecodedSlice(Tail(results))

\* Decode(&slice) of a body whose elements decode to `results`: the value is
\* read and syntax-checked as a whole before anything is stored
Decode(body, results) ==
    IF ~body.syntax THEN [slice |-> << >>, err |-> TRUE]
    ELSE LET done == DecodedSlice(results) IN
         [slice |-> [i \in 1..Len(done) |-> done[i].value],
          err |-> \E i \in 1..Len(done) : done[i].err /= "none"]

DecodeMessages(body) ==
    Decode(body, [i \in 1..Len(body.elems) |-> DecodeMessage(body.elems[i])])

DecodeUsers(body) ==
    Decode(body, [i \in 1..Len(body.elems) |-> DecodeUser(body.elems[i])])

-----------------------------------------------------------------------------
(* The remote calls of the handlers *)

\* How an outbound GET ends for the caller: "ok", or the failure that is logged
FetchResult(outcome, decodeErr) ==
    IF outcome /= "expected" THEN outcome
    ELSE IF decodeErr THEN "decodeError" ELSE "ok"

\* What a getMessages / getActiveUsers call does, given how the GET ended and
\* what Decode made of the body:
\*   client  returns the slice after each failure (it is still nil before
\*           Decode, and whatever Decode stored after a decode error)
\*   first   logs and goes on: a non-200 body is decoded too; a transport
\*           error panics at "defer resp.Body.Close()"
\*   second  log.Fatalf on each of the three failures
Fetch(v, outcome, decoded) ==
    LET effect == FailureEffect(v, outcome) IN
    CASE effect /= "return" ->
             [effect |-> effect, result |-> outcome, slice |-> << >>]
      [] v = "client" /\ outcome /= "expected" ->
             [effect |-> "return", result |-> outcome, slice |-> << >>]
      [] v = "second" /\ decoded.err ->
             [effect |-> "exit", result |-> "decodeError", slice |-> << >>]
      [] OTHER ->
             [effect |-> "return", result |-> FetchResult(outcome, decoded.err),
              slice |-> decoded.slice]

getMessages(v, outcome, body) == Fetch(v, outcome, DecodeMessages(body))

getActiveUsers(v, outcome, body) == Fetch(v, outcome, DecodeUsers(body))

\* sendMessage with a literal username, as sendPing of the second program has
sendMessage_Literal(userName, config, message) ==
    [path |-> "/messages", host |-> config.ChatServerFQDN,
     port |-> config.ChatServerPort, username |-> "Alice", message |-> message,
     timeSent |-> ZeroTime]

\* Message{Username: EnvVarUserName, Message: message} posted to /messages of
\* the configured backend; TimeSent is not set
sendMessage(userName, config, message) ==
    [path |-> "/messages", host |-> config.ChatServerFQDN,
     port |-> config.ChatServerPort, username |-> userName, message |-> message,
     timeSent |-> ZeroTime]

\* the GET of getMessages / getActiveUsers
Get(config, path) ==
    [path |-> path, host |-> config.ChatServerFQDN, port |-> config.ChatServerPort]

-----------------------------------------------------------------------------
(* Rendering *)

\* MessageEntry counting from 1
MessageEntry_OneBased(idx, msg) ==
    "(" \o ToString(idx + 1) \o ")[" \o msg.Username \o "] " \o msg.Message

\* fmt.Sprintf("(%d)[%s] %s", idx, msg.Username, msg.Message)
MessageEntry(idx, msg) ==
    "(" \o ToString(idx) \o ")[" \o msg.Username \o "] " \o msg.Message

\* a time.Time formatted with %s (Time.String)
TimeString(t) ==
    CASE t = "2023-04-01T10:00:00Z" -> "2023-04-01 10:00:00 +0000 UTC"
      [] t = "2023-04-01T10:00:03Z" -> "2023-04-01 10:00:03 +0000 UTC"
      [] OTHER -> "0001-01-01 00:00:00 +0000 UTC"

\* fmt.Sprintf("(%d) %s", idx, user.Username) in pkg/client,
\* fmt.Sprintf("(%d)[%s] %s", idx, user.LastPing, user.Username) in the programs
UserEntry(v, idx, user) ==
    IF v = "client"
    THEN "(" \o ToString(idx) \o ") " \o user.Username
    ELSE "(" \o ToString(idx) \o ")[" \o TimeString(user.LastPing) \o "] "
             \o user.Username

\* for idx, msg := range getMessages() { messages = append(messages, ...) }
RECURSIVE MessageEntries(_, _)
MessageEntries(msgs, idx) ==
    IF idx >= Len(msgs) THEN << >>
    ELSE << MessageEntry(idx, msgs[idx + 1]) >> \o MessageEntries(msgs, idx + 1)

\* UserEntries that skips a user equal to the one before it
RECURSIVE UserEntries_Dedup(_, _, _)
UserEntries_Dedup(v, users, idx) ==
    IF idx >= Len(users) THEN << >>
    ELSE IF idx > 0 /\ users[idx + 1] = users[idx]
         THEN UserEntries_Dedup(v, users, idx + 1)
    ELSE << UserEntry(v, idx, users[idx + 1]) >> \o UserEntries_Dedup(v, users, idx + 1)

\* for idx, user := range getActiveUsers() { users = append(users, ...) }
RECURSIVE UserEntries(_, _, _)
UserEntries(v, users, idx) ==
    IF idx >= Len(users) THEN << >>
    ELSE << UserEntry(v, idx, users[idx + 1]) >> \o UserEntries(v, users, idx + 1)

\* strings.Join(elems, sep)
RECURSIVE Join(_, _)
Join(elems, sep) ==
    IF elems = << >> THEN ""
    ELSE IF Len(elems) = 1 THEN elems[1]
    ELSE elems[1] \o sep \o Join(Tail(elems), sep)

\* the <body> of the documents (the <head> is left out)
MessagesBody(v, entries) ==
    IF v = "client"
    THEN "<body><div><strong>Chat Messages:</strong><br/>" \o Join(entries, "<br/>")
             \o "</div></body></html>"
    ELSE "<body>" \o Join(entries, "<br/>") \o "</body></html>"

UsersBody(v, entries) ==
    CASE v = "client" ->
             "<body><div><strong>Users:</strong><br/> " \o Join(entries, "<br/>")
                 \o "</div></body></html>"
      [] v = "first" ->
             "<body><strong>Users:</strong><br/> " \o Join(entries, "<br/>")
                 \o "</body></html>"
      [] OTHER ->
             "<body><strong>Users:</strong> " \o Join(entries, "<br/>")
                 \o "</body></html>"

IndexBody ==
    "<body><iframe src=" \o endPointGetMessages \o "><iframe src="
        \o endPointGetUsers \o "><form action=" \o endPointSendMessage \o ">"
        \o "<input name=" \o formKeyMessage \o "></body></html>"

\* fmt.Fprintf(w, "%s", content): a 200 with the document
Page(entries, body) ==
    [status |-> StatusOK, location |-> "", entries |-> entries, body |-> body]

\* http.Redirect(w, r, "/", 302)
Redirect(url, code) ==
    [status |-> code, location |-> url, entries |-> << >>, body |-> ""]

\* the handler panicked: net/http recovers, logs and closes the connection
\* without a response
Aborted == [status |-> -1, location |-> "", entries |-> << >>, body |-> ""]

-----------------------------------------------------------------------------
(* The handlers of the local server *)

\* CanAccept of a server that takes no request while sendPing is in flight
CanAccept_NotDuringPing ==
    /\ procState = "running"
    /\ mainpc = "serving"
    /\ req.pc \in {"idle", "done"}
    /\ hbpc /= "ping"

\* the listener serves, and the request before has been answered
CanAccept ==
    /\ procState = "running"
    /\ mainpc = "serving"
    /\ req.pc \in {"idle", "done"}

\* the values of form field "message" a browser may send
FormMessages == {"", "hello"}

\* r.Form.Get(key): the first value of the key, "" when the key is absent
FormGet(form) == IF form = << >> THEN "" ELSE form[1]

NewReq(kind, pc, parses, form) ==
    [kind |-> kind, pc |-> pc, parses |-> parses, form |-> form,
     result |-> "", fetched |-> << >>]

startvars == << envvars, Config, procState, mainpc, clientpc, routes >>

\* whether a response written before the request now accepted listed entries
NoteEntries(had, earlier) == had \/ earlier.entries /= << >>

\* HandlerIndex that loads the configuration file again for each request
HandlerIndex_ReloadsConfig ==
    /\ CanAccept
    /\ req' = NewReq("index", "done", TRUE, << >>)
    /\ resp' = Page(<< >>, IndexBody)
    /\ posts' = << >>
    /\ fetches' = << >>
    /\ hadEntries' = NoteEntries(hadEntries, resp)
    /\ Config' = readConfig(variant, configFile)
    /\ configWrites' = configWrites + 1
    /\ UNCHANGED << inFlight, stopvars, lastOutcome, envvars, procState, mainpc,
                    clientpc, routes, hbvars >>

\* HandlerIndex / handlerIndex: a static document, no remote call
HandlerIndex ==
    /\ CanAccept
    /\ req' = NewReq("index", "done", TRUE, << >>)
    /\ resp' = Page(<< >>, IndexBody)
    /\ posts' = << >>
    /\ fetches' = << >>
    /\ hadEntries' = NoteEntries(hadEntries, resp)
    /\ UNCHANGED << configWrites, inFlight, stopvars, lastOutcome, startvars, hbvars >>

\* HandlerSendMessage up to the blocking POST of sendMessage
HandlerSendMessage ==
    /\ CanAccept
    /\ \E parses \in BOOLEAN :
       \E form \in {<< >>} \cup (IF parses THEN {<< m >> : m \in FormMessages} ELSE {}) :
          IF ~parses
          THEN /\ req' = NewReq("sendMessage", "done", parses, form)
               /\ resp' = Redirect("/", StatusFound)
               /\ posts' = << >>
          ELSE /\ req' = NewReq("sendMessage", "awaitPost", parses, form)
               /\ resp' = NoResp
               /\ posts' = << sendMessage(EnvVarUserName, Config, FormGet(form)) >>
    /\ fetches' = << >>
    /\ hadEntries' = NoteEntries(hadEntries, resp)
    /\ UNCHANGED << configWrites, inFlight, stopvars, lastOutcome, startvars, hbvars >>

\* the POST of sendMessage returns, then HandlerSendMessage redirects
SendMessageReturns ==
    /\ procState = "running"
    /\ req.pc = "awaitPost"
    /\ \E outcome \in Outcomes :
          LET effect == FailureEffect(variant, outcome) IN
          /\ req' = [req EXCEPT !.pc = "done", !.result =
                        IF outcome = "expected" THEN "ok" ELSE outcome]
          /\ procState' = IF effect = "exit" THEN "exited" ELSE procState
          /\ resp' = CASE effect = "return" -> Redirect("/", StatusFound)
                       [] effect = "panic" -> Aborted
                       [] OTHER -> resp
    /\ UNCHANGED << configWrites, inFlight, stopvars, lastOutcome, hadEntries,
                    envvars, Config, mainpc, clientpc, routes, hbvars, posts, fetches >>

\* HandlerGetMessages that answers from the list of the request before when
\* that one was fetched without a failure
HandlerGetMessages_Cached ==
    /\ CanAccept
    /\ IF req.kind = "getMessages" /\ req.result = "ok"
       THEN /\ UNCHANGED << req, resp >>
            /\ fetches' = << >>
       ELSE /\ req' = NewReq("getMessages", "awaitGet", TRUE, << >>)
            /\ resp' = NoResp
            /\ fetches' = << Get(Config, "/messages") >>
    /\ posts' = << >>
    /\ hadEntries' = NoteEntries(hadEntries, resp)
    /\ UNCHANGED << configWrites, inFlight, stopvars, lastOutcome, startvars, hbvars >>

\* HandlerGetMessages up to the blocking GET of getMessages
HandlerGetMessages ==
    /\ CanAccept
    /\ req' = NewReq("getMessages", "awaitGet", TRUE, << >>)
    /\ resp' = NoResp
    /\ posts' = << >>
    /\ fetches' = << Get(Config, "/messages") >>
    /\ hadEntries' = NoteEntries(hadEntries, resp)
    /\ UNCHANGED << configWrites, inFlight, stopvars, lastOutcome, startvars, hbvars >>

\* HandlerGetUsers up to the blocking GET of getActiveUsers
HandlerGetUsers ==
    /\ CanAccept
    /\ req' = NewReq("getUsers", "awaitGet", TRUE, << >>)
    /\ resp' = NoResp
    /\ posts' = << >>
    /\ fetches' = << Get(Config, "/users") >>
    /\ hadEntries' = NoteEntries(hadEntries, resp)
    /\ UNCHANGED << configWrites, inFlight, stopvars, lastOutcome, startvars, hbvars >>

\* what the handler does with the outcome of its fetch
Respond(fetch, page) ==
    /\ req' = [req EXCEPT !.pc = "done", !.result = fetch.result,
                          !.fetched = fetch.slice]
    /\ procState' = IF fetch.effect = "exit" THEN "exited" ELSE procState
    /\ resp' = CASE fetch.effect = "return" -> page
                 [] fetch.effect = "panic" -> Aborted
                 [] OTHER -> resp

\* a transport error brings no body
BodiesOf(outcome, bodies) ==
    IF outcome = "transportError" THEN {MalformedBody} ELSE bodies

\* the GET of getMessages returns; HandlerGetMessages renders what it got
GetMessagesReturns ==
    /\ procState = "running"
    /\ req.kind = "getMessages"
    /\ req.pc = "awaitGet"
    /\ \E outcome \in Outcomes :
       \E body \in BodiesOf(outcome, MessageBodies) :
          LET fetch == getMessages(variant, outcome, body)
              entries == MessageEntries(fetch.slice, 0)
          IN  Respond(fetch, Page(entries, MessagesBody(variant, entries)))
    /\ UNCHANGED << configWrites, inFlight, stopvars, lastOutcome, hadEntries,
                    envvars, Config, mainpc, clientpc, routes, hbvars, posts, fetches >>

\* the GET of getActiveUsers returns; HandlerGetUsers renders what it got
GetUsersReturns ==
    /\ procState = "running"
    /\ req.kind = "getUsers"
    /\ req.pc = "awaitGet"
    /\ \E outcome \in Outcomes :
       \E body \in BodiesOf(outcome, UserBodies) :
          LET fetch == getActiveUsers(variant, outcome, body)
              entries == UserEntries(variant, fetch.slice, 0)
          IN  Respond(fetch, Page(entries, UsersBody(variant, entries)))
    /\ UNCHANGED << configWrites, inFlight, stopvars, lastOutcome, hadEntries,
                    envvars, Config, mainpc, clientpc, routes, hbvars, posts, fetches >>

Next ==
    \/ MainGo
    \/ CheckEnv
    \/ ReadConfig
    \/ HandleFunc
    \/ StartHeartbeat
    \/ Ready
    \/ LogStart
    \/ Listen
    \/ ListenAndServeReturns
    \/ TimePasses
    \/ TickerFire
    \/ HbReceiveTick
    \/ HbReceiveDone
    \/ HbLoop
    \/ HbPingReturn
    \/ HbWake
    \/ HandlerIndex
    \/ HandlerSendMessage
    \/ SendMessageReturns
    \/ HandlerGetMessages
    \/ GetMessagesReturns
    \/ HandlerGetUsers
    \/ GetUsersReturns

Spec == Init /\ [][Next]_vars

-----------------------------------------------------------------------------
(* Startup alone, from every configuration file of Files *)

InitConfig == InitWith(Files)

NextStartup ==
    \/ MainGo
    \/ CheckEnv
    \/ ReadConfig
    \/ HandleFunc
    \/ StartHeartbeat
    \/ Ready
    \/ LogStart
    \/ Listen

SpecConfig == InitConfig /\ [][NextStartup]_vars

-----------------------------------------------------------------------------
(* pkg/client with a holder of quit that closes it. The packaged main never *)
(* does (its close(quit) follows log.Fatal), so Spec has no such step; this  *)
(* specification gives NewChatClient a caller that uses the channel.         *)

InitShutdown == Init /\ variant = "client"

NextShutdown ==
    \/ MainGo
    \/ CheckEnv
    \/ ReadConfig
    \/ HandleFunc
    \/ StartHeartbeat
    \/ Ready
    \/ LogStart
    \/ Listen
    \/ ListenAndServeReturns
    \/ CloseQuit
    \/ QuitReceived
    \/ TimePasses
    \/ TickerFire
    \/ HbReceiveTick
    \/ HbReceiveDone
    \/ HbPingReturn

SpecShutdown == InitShutdown /\ [][NextShutdown]_vars

-----------------------------------------------------------------------------
(* Properties *)

\* readConfig has been called and has returned
ConfigLoaded == StartupPc \notin {"none", "go", "checkEnv", "readConfig"}

\* C1: in pkg/client every request handled by HandlerSendMessage ends with a
\* 302 redirect to "/", whether the post was answered 201, answered another
\* status, failed in the transport, or the form did not parse; nothing else
\* is written to the browser.
C1_SendMessageRedirects ==
    (variant = "client" /\ req.kind = "sendMessage") =>
        /\ req.pc = "done" => (resp.status = 302 /\ resp.location = "/")
        /\ req.pc /= "done" => resp = NoResp

C1_Witness ==
    /\ variant = "client"
    /\ req.kind = "sendMessage"
    /\ req.pc = "done"
    /\ req.result = "transportError"
    /\ resp.status = 302

\* C2: in pkg/client getMessages and getActiveUsers return an empty sequence
\* after a transport error, a non-200 status and a decode error (also one
\* raised after some elements were decoded), and the view renders no entry.
C2_FailedFetchIsEmpty ==
    (/\ variant = "client"
     /\ req.kind \in {"getMessages", "getUsers"}
     /\ req.pc = "done"
     /\ req.result /= "ok")
        => (req.fetched = << >> /\ resp.entries = << >>)

\* C3: in pkg/client a request to HandlerSendMessage whose form parses makes
\* exactly one POST to /messages, with the local identity as username and the
\* value of form field "message" ("" when absent) as message; a request whose
\* form does not parse makes none; no request makes two.
C3_OnePostPerRequest ==
    (variant = "client" /\ req.kind = "sendMessage") =>
        IF req.parses
        THEN /\ Len(posts) = 1
             /\ posts[1].path = "/messages"
             /\ posts[1].username = env["HTTPCHAT_USERNAME"]
             /\ posts[1].message = (IF req.form = << >> THEN "" ELSE req.form[1])
        ELSE posts = << >>

C3_Witness ==
    /\ variant = "client"
    /\ req.kind = "sendMessage"
    /\ req.pc = "done"
    /\ req.parses
    /\ req.form = << >>
    /\ req.result = "otherStatus"
    /\ Len(posts) = 1
    /\ posts[1].message = ""

\* C4: HandlerGetMessages renders one entry per message getMessages returned,
\* in the order received, the entry at position i (from 0) being
\* "(i)[username] message"; nothing is reordered, dropped, duplicated or merged.
C4_MessagesRendered ==
    (req.kind = "getMessages" /\ req.pc = "done" /\ resp.status = 200) =>
        /\ Len(resp.entries) = Len(req.fetched)
        /\ \A i \in 1..Len(req.fetched) :
              resp.entries[i] = "(" \o ToString(i - 1) \o ")[" \o req.fetched[i].Username
                                    \o "] " \o req.fetched[i].Message
        /\ resp.body = MessagesBody(variant, resp.entries)

C4_Witness ==
    /\ req.kind = "getMessages"
    /\ req.pc = "done"
    /\ req.result = "ok"
    /\ Len(req.fetched) = 2
    /\ req.fetched[1] = req.fetched[2]
    /\ Len(resp.entries) = 2

C6_ConfigLoadDegrades ==
    (~configFile.readable \/ ~configFile.json) =>
        /\ StartupPc = "readConfig" => procState = "running"
        /\ ConfigLoaded =>
              /\ Config = ChatConfig("chat.server.net", 8080, 99)
              /\ procState /= "panicked"

\* C7: when the config file parses, every field that is absent, zero or empty
\* in the file holds its default ("chat.server.net", 8080, 99) in the
\* ChatConfig readConfig returns, and every other field holds the file's value.
C7_PerFieldDefaults ==
    (configFile.readable /\ configFile.json /\ ConfigLoaded) =>
        /\ ~Config.nil
        /\ Config.ChatServerFQDN =
              (IF configFile.fqdn \in {<< >>, << "" >>} THEN "chat.server.net"
                                                         ELSE configFile.fqdn[1])
        /\ Config.ChatServerPort =
              (IF configFile.port \in {<< >>, << 0 >>} THEN 8080
                                                        ELSE configFile.port[1])
        /\ Config.WebServerPortNumber =
              (IF configFile.web \in {<< >>, << 0 >>} THEN 99
                                                       ELSE configFile.web[1])

C7_Witness ==
    /\ configFile = JsonFile(<< >>, << 9090 >>, << >>)
    /\ ConfigLoaded
    /\ Config = ChatConfig("chat.server.net", 9090, 99)

\* C8: when HTTPCHAT_USERNAME or CONFIG_FILENAME is unset or empty, the
\* process ends at the check of the environment: no route is registered, the
\* configuration is not loaded, the heartbeat is not started and the listener
\* is not started.
C8_MissingEnvStopsStartup ==
    (env["HTTPCHAT_USERNAME"] = "" \/ env["CONFIG_FILENAME"] = "") =>
        /\ StartupPc \in {"none", "checkEnv"}
        /\ procState \in {"running", "exited"}
        /\ routes = << >>
        /\ Config = NilConfig
        /\ hbpc = "none"
        /\ mainpc \notin {"listen", "serving"}

C8_Witness ==
    /\ env["HTTPCHAT_USERNAME"] /= ""
    /\ env["CONFIG_FILENAME"] = ""
    /\ StartupPc = "checkEnv"
    /\ procState = "exited"

\* C9: the ticker keeps no backlog: at every moment at most one tick is
\* pending in ticker.C, and the calls of sendPing started are at most the
\* ticks fired, which are at most the periods elapsed.
C9_NoBacklog ==
    variant \in TickerVariants =>
        /\ tickerC <= 1
        /\ pingsStarted <= ticksFired
        /\ ticksFired <= now

C9_Witness ==
    /\ variant \in TickerVariants
    /\ hbpc = "ping"
    /\ tickerC = 1
    /\ ticksDropped > 0

\* the heartbeat loop has nothing left to do at this moment
HeartbeatIdle ==
    IF variant \in TickerVariants
    THEN hbpc = "select" /\ tickerC = 0 /\ ~TickDue
    ELSE hbpc = "sleep" /\ now < wakeAt

\* C10 (as claimed): started and left running for N periods, the scheduler
\* has issued at least N calls of sendPing.
C10_AtLeastNCalls ==
    (procState = "running" /\ HeartbeatStarted /\ ~tickerStopped /\ HeartbeatIdle) =>
        pingsStarted >= now

\* C10 (amended): started and left running (not stopped) for N periods, the ticker-driven
\* scheduler has issued N calls less the ticks dropped and the tick pending
\* (N only when none was dropped or is pending); the sleep loop of the second
\* program has issued between 1 and N + 1 calls.
C10_CallsAfterNPeriods ==
    (procState = "running" /\ HeartbeatStarted /\ ~tickerStopped) =>
        IF variant \in TickerVariants
        THEN /\ pingsStarted + tickerC + ticksDropped = ticksFired
             /\ ticksFired = (IF TickDue THEN now - 1 ELSE now)
        ELSE /\ pingsStarted <= now + 1
             /\ hbpc /= "loop" => pingsStarted >= 1

C10_Witness ==
    /\ variant \in TickerVariants
    /\ procState = "running"
    /\ HeartbeatIdle
    /\ now = 3
    /\ ticksDropped = 1
    /\ pingsStarted = 2

\* C11 (as claimed): once quit is closed and NewChatClient has stopped the
\* ticker, no new tick is issued and the heartbeat loop starts no further
\* call of sendPing; a call in flight goes on to its end.
C11_NoPingAfterQuit ==
    [][ (quitClosed /\ tickerStopped) =>
            /\ ticksFired' = ticksFired
            /\ pingsStarted' = pingsStarted
            /\ (hbpc = "ping" /\ hbpc' /= "ping") => hbpc' = "select" ]_vars

\* C11 (amended): once quit is closed and NewChatClient has stopped the
\* ticker, no new tick is issued; the heartbeat loop starts at most one
\* further call of sendPing, and only for a tick that ticker.C held when the
\* ticker was stopped; a call in flight goes on to its end.
C11_AtMostOnePingAfterQuit ==
    [][ (quitClosed /\ tickerStopped) =>
            /\ ticksFired' = ticksFired
            /\ tickerC' <= tickerC
            /\ pingsStarted' /= pingsStarted =>
                   /\ pingsStarted = pingsAtStop
                   /\ pingsStarted' = pingsAtStop + 1
                   /\ tickerC = 1 /\ tickerC' = 0
            /\ (hbpc = "ping" /\ hbpc' /= "ping") => hbpc' = "select" ]_vars

C11_Witness ==
    /\ quitClosed
    /\ tickerStopped
    /\ pingsAtStop = 1
    /\ pingsStarted = 2
    /\ hbpc = "returned"
    /\ lastOutcome \in Outcomes

\* a handler is blocked in its call to the backend
HandlerBlocked == req.pc \in {"awaitPost", "awaitGet"}

\* C12: the heartbeat loop and the handlers never block each other. While
\* sendPing is blocked on the backend, the server can take a request with
\* each handler and a handler waiting for the backend can finish; while a
\* handler is blocked on the backend, the timer can fire, the loop can take
\* a tick and start sendPing, and a sendPing in flight can return.
C12_NeverBlockEachOther ==
    procState = "running" =>
        /\ hbpc = "ping" =>
              /\ (mainpc = "serving" /\ req.pc \in {"idle", "done"}) =>
                    /\ ENABLED HandlerIndex
                    /\ ENABLED HandlerSendMessage
                    /\ ENABLED HandlerGetMessages
                    /\ ENABLED HandlerGetUsers
              /\ req.pc = "awaitPost" => ENABLED SendMessageReturns
              /\ (req.pc = "awaitGet" /\ req.kind = "getMessages") =>
                    ENABLED GetMessagesReturns
              /\ (req.pc = "awaitGet" /\ req.kind = "getUsers") =>
                    ENABLED GetUsersReturns
        /\ HandlerBlocked =>
              /\ TickDue => ENABLED TickerFire
              /\ (hbpc = "select" /\ tickerC > 0) => ENABLED HbReceiveTick
              /\ hbpc = "loop" => ENABLED HbLoop
              /\ hbpc = "ping" => ENABLED HbPingReturn

C12_Witness ==
    /\ procState = "running"
    /\ hbpc = "ping"
    /\ req.kind = "getMessages"
    /\ req.pc = "awaitGet"
    /\ pingsStarted = 2

\* C13: every outbound payload carries the time of sending: the timeSent of
\* the ping built by a call of sendPing, and of the message posted by a call
\* of sendMessage, is the current time at the moment of the call.
C13_TimeSentIsNow ==
    [][ /\ pingsStarted' /= pingsStarted => lastPing'.timeSent = TimeNow(now)
        /\ (posts' /= posts /\ posts' /= << >>) =>
               posts'[1].timeSent = TimeNow(now) ]_vars

\* the calls that failed, as the caller sees them
Failures == {"otherStatus", "transportError"}

\* C14: in every variant the username of every heartbeat and of every posted
\* message is the value of HTTPCHAT_USERNAME, which is not empty.
C14_UsernameIsLocalIdentity ==
    /\ pingsStarted > 0 =>
          /\ lastPing.username = env["HTTPCHAT_USERNAME"]
          /\ lastPing.username /= ""
    /\ \A i \in 1..Len(posts) :
          /\ posts[i].username = env["HTTPCHAT_USERNAME"]
          /\ posts[i].username /= ""

\* C15: in the first program a transport error or an unexpected status in
\* sendMessage, getMessages, sendPing or getActiveUsers is logged and the
\* caller goes on: the handler writes its response (a list with no entry, or
\* the redirect), the heartbeat loop is back at its select, and the failure
\* does not end the process.
C15_FirstProgramProceeds ==
    variant = "first" =>
        /\ (req.pc = "done" /\ req.result \in Failures) =>
              IF req.kind = "sendMessage"
              THEN resp.status = 302 /\ resp.location = "/"
              ELSE resp.status = 200 /\ resp.entries = << >>
        /\ lastOutcome \in Failures =>
              /\ procState /= "panicked"
              /\ pingsStarted > 0 => hbpc \in {"select", "ping", "returned"}

\* C16: in the packaged program main is at its log line, at ListenAndServe
\* or past it only after NewChatClient has registered the four routes,
\* started the heartbeat goroutine and sent on ready.
C16_ListenAfterReady ==
    (variant = "client" /\ mainpc \in {"logStart", "listen", "serving", "fatal"}) =>
        /\ routes = << "/", "/get-messages", "/get-users", "/send-message" >>
        /\ hbpc /= "none"
        /\ clientpc \in {"waitQuit", "sendDone", "returned"}
        /\ ~Config.nil \/ mainpc = "logStart"

C16_Witness ==
    /\ variant = "client"
    /\ mainpc = "serving"
    /\ procState = "running"
    /\ Len(routes) = 4
    /\ hbpc = "select"

\* C17: in pkg/client a failed heartbeat leaves the scheduler running and is
\* not retried. After a failed sendPing the process is still running (or was
\* ended by the listener), and the loop is back at its select; a sendPing
\* that returns starts no other call; each call of sendPing starts by taking
\* one tick from ticker.C, after a failure as after a success.
C17_FailedPingNotRetried ==
    /\ [](( variant = "client" /\ lastOutcome \in Failures) =>
              /\ procState = "running" \/ mainpc = "fatal"
              /\ hbpc \in {"select", "ping", "returned"})
    /\ [][ variant = "client" =>
              /\ (hbpc = "ping" /\ hbpc' /= "ping") =>
                    /\ hbpc' = "select"
                    /\ lastOutcome' \in Outcomes
                    /\ pingsStarted' = pingsStarted
                    /\ tickerC' = tickerC
              /\ pingsStarted' /= pingsStarted =>
                    /\ hbpc = "select" /\ hbpc' = "ping"
                    /\ tickerC = 1 /\ tickerC' = 0
                    /\ pingsStarted' = pingsStarted + 1 ]_vars

C17_Witness ==
    /\ variant = "client"
    /\ procState = "running"
    /\ lastOutcome = "transportError"
    /\ hbpc = "ping"
    /\ pingsStarted = 2
    /\ tickerC = 0

\* C18: when ListenAndServe has returned an error, the shutdown path has run
\* before the process exits: the ticker is stopped (and, in the packaged
\* program, quit is closed).
C18_ListenerFailureStopsTicker ==
    (variant \in TickerVariants /\ mainpc = "fatal") =>
        /\ tickerStopped
        /\ variant = "client" => quitClosed

\* C19: there is no cache. A request to HandlerGetMessages or HandlerGetUsers
\* makes exactly one GET, to its own endpoint; until that GET returns nothing
\* is written; the response lists exactly what that GET brought, so no entry
\* after a transport error, whatever an earlier response listed.
\* HandlerIndex makes no remote call.
C19_NoCache ==
    /\ req.kind = "index" => (fetches = << >> /\ posts = << >>)
    /\ req.kind = "getMessages" =>
          (Len(fetches) = 1 /\ fetches[1].path = "/messages" /\ posts = << >>)
    /\ req.kind = "getUsers" =>
          (Len(fetches) = 1 /\ fetches[1].path = "/users" /\ posts = << >>)
    /\ req.kind \in {"getMessages", "getUsers"} =>
          /\ req.pc = "awaitGet" => (resp = NoResp /\ req.fetched = << >>)
          /\ req.pc = "done" => Len(resp.entries) = Len(req.fetched)
          /\ (req.pc = "done" /\ req.result = "transportError") =>
                (req.fetched = << >> /\ resp.entries = << >>)

C19_Witness ==
    /\ variant = "client"
    /\ hadEntries
    /\ req.kind = "getMessages"
    /\ req.pc = "done"
    /\ req.result = "transportError"
    /\ resp.status = 200
    /\ resp.entries = << >>
    /\ Len(fetches) = 1

\* C20: every ChatConfig readConfig returns has its remote port in the TCP
\* port range 1..65535, whatever integer chat-server-port holds in the file.
C20_PortInRange ==
    (ConfigLoaded /\ ~Config.nil) => Config.ChatServerPort \in 1..65535

\* a step that reads Config: main's log line and listen address, the URL of
\* sendPing, of sendMessage and of the two fetches
ReadsConfig ==
    \/ mainpc \in {"logStart", "listen"} /\ (mainpc' /= mainpc \/ procState' /= procState)
    \/ pingsStarted' /= pingsStarted
    \/ posts' /= posts /\ posts' /= << >>
    \/ fetches' /= fetches /\ fetches' /= << >>

\* the positions from which Config is read
ReaderExists ==
    \/ mainpc \in {"logStart", "listen", "serving", "fatal"}
    \/ hbpc /= "none"
    \/ req.kind /= "none"

\* C21: Config is assigned at most once, by the startup sequence at its
\* readConfig step, when no goroutine that reads it exists yet (in the
\* packaged program: before ready is signalled, main waiting in <-ready);
\* every step that reads Config comes after that assignment; no step changes
\* the local identity.
C21_ConfigWrittenOnceBeforeReads ==
    /\ []( /\ configWrites <= 1
           /\ ReaderExists => (configWrites = 1)
           /\ (variant = "client" /\ clientpc \notin {"none", "checkEnv", "readConfig"})
                 => (configWrites = 1) )
    /\ [][ /\ (configWrites' /= configWrites) =>
                 ( /\ StartupPc = "readConfig"
                   /\ configWrites = 0
                   /\ ~ReaderExists
                   /\ (variant = "client" => mainpc = "waitReady") )
           /\ (Config' /= Config) => (configWrites' = configWrites + 1)
           /\ ReadsConfig => (configWrites = 1 /\ Config' = Config)
           /\ EnvVarUserName' = EnvVarUserName
           /\ env' = env ]_vars

C21_Witness ==
    /\ variant = "client"
    /\ configWrites = 1
    /\ mainpc = "serving"
    /\ pingsStarted >= 1
    /\ req.kind = "getMessages"
    /\ req.pc = "done"
    /\ Len(fetches) = 1

\* C22: at most one call of sendPing is in flight at any time: a call is in
\* flight exactly while the heartbeat loop is inside sendPing, so the loop
\* takes no tick (and does not start the next call) before the call has
\* ended.
C22_OnePingInFlight ==
    /\ inFlight \in {0, 1}
    /\ (inFlight = 1) <=> (hbpc = "ping")

C22_Witness ==
    /\ variant = "client"
    /\ procState = "running"
    /\ inFlight = 1
    /\ pingsStarted = 1
    /\ now = 3
    /\ tickerC = 1
    /\ ticksDropped = 1

====
